---------------------------- MODULE Spec2Model ----------------------------
(***************************************************************************)
(* Model of cueltschey/rt-env-test.                                        *)
(*                                                                         *)
(*   src/worker_thread.py  llm_worker: __init__, start(), get_token()      *)
(*   src/check_env.py      main(): the environment checklist               *)
(*                                                                         *)
(* llm_worker.start() is a straight-line method.  Its statements are       *)
(* listed, in source order, in StartBody; pc is the index of the statement *)
(* about to run (0: no start() in progress) and every statement is one     *)
(* action.  The base class WorkerThread (cleanup_old_containers,           *)
(* setup_env, setup_networks, setup_volumes, start_container) is not part  *)
(* of the sources; its operations are modelled from spec.md sections 4.3,  *)
(* 6 and 7.                                                                *)
(*                                                                         *)
(* main() of check_env.py is modelled with one action per if-block, one    *)
(* loop iteration per step for the two for-loops.                          *)
(***************************************************************************)
EXTENDS Integers, Sequences, FiniteSets, TLC

VARIABLES
    \* ---- llm_worker instance and its surroundings ----
    results_dir,              \* self.config.process_config.get("results_dir")
    config_file,              \* self.config.config_file
    docker_system_directory,  \* os.getenv('DOCKER_SYSTEM_DIRECTORY')
    access_token,             \* self.access_token
    image_name,               \* self.config.image_name
    container_env,            \* self.config.container_env
    container_volumes,        \* self.config.container_volumes
    device_requests,          \* self.config.device_requests
    l_results_dir,            \* the local results_dir of start()
    spec_env,                 \* create-spec: environment handed over by setup_env
    spec_network,             \* create-spec: network attached by setup_networks
    spec_volumes,             \* create-spec: bind mounts built by setup_volumes
    containers,               \* containers of this worker's identity in the runtime
    next_id,                  \* id the runtime gives the next container it creates
    pc,                       \* index into StartBody, 0 outside start()
    trace,                    \* statements of the current/last start() run so far
    results,                  \* outcome of every finished start(), oldest first
    n_get_token,              \* get_token() calls made
    got_tokens,               \* values get_token() has returned
    \* ---- check_env.py main() ----
    a_images_dir,             \* args.images_dir
    a_check_usb,              \* args.check_usb
    a_check_host,             \* args.check_host
    a_check_env,              \* args.check_env   (<<>> stands for None)
    a_check_config,           \* args.check_config (<<>> stands for None)
    a_check_influxdb,         \* args.check_influxdb
    a_check_control_api,      \* args.check_control_api
    failed,                   \* the local failed of main()
    mpc,                      \* the if-block main() is about to run
    idx,                      \* for-loop position (items already checked)
    ran,                      \* checks run so far: [check, arg, ok]
    exit_status               \* -1 while running, else the sys.exit() status

workerVars == <<results_dir, config_file, docker_system_directory, access_token,
                image_name, container_env, container_volumes, device_requests,
                l_results_dir, spec_env, spec_network, spec_volumes, containers,
                next_id, pc, trace, results, n_get_token, got_tokens>>

mainVars == <<a_images_dir, a_check_usb, a_check_host, a_check_env, a_check_config,
              a_check_influxdb, a_check_control_api, failed, mpc, idx, ran,
              exit_status>>

vars == <<workerVars, mainVars>>

-----------------------------------------------------------------------------
(* Bounds *)

MaxStarts == 2
MaxGetToken == 2
MaxList == 2

-----------------------------------------------------------------------------
(* Python values *)

\* Python's None where a string is expected (no path or setting equals it).
PyNone == "<None>"

\* bool(v) of an optional string: None and "" are falsy.
Truthy(v) == v # PyNone /\ v # ""

\* str(v) as an f-string formats it: None prints as "None".
Str(v) == IF v = PyNone THEN "None" ELSE v

\* d[k] = v on a dict: adds the key or replaces its value.
Put(d, k, v) == [x \in (DOMAIN d) \cup {k} |-> IF x = k THEN v ELSE d[x]]

EmptyDict == [x \in {} |-> ""]

-----------------------------------------------------------------------------
(* llm_worker: inputs *)

ResultsDirs == {PyNone, "", "/data/results"}

DockerSystemDirectories == {PyNone, "/opt/docker"}

ConfigFiles == {PyNone, "/etc/rt/llm.yaml", "/tmp/.rt_results",
                "/opt/docker/.llm_worker_cache", "None/.llm_worker_cache"}

Tokens == {"tokenA", "tokenB"}

StaleContainers ==
    {[id |-> 0, state |-> s, devices |-> 0, volumes |-> EmptyDict] :
        s \in {"running", "exited"}}

LlmImage == "ghcr.io/oran-testing/llm_worker"

GpuRequest == [count |-> -1, capabilities |-> <<<<"gpu">>>>, driver |-> "nvidia"]

WorkerNetwork == "worker_network"

-----------------------------------------------------------------------------
(* llm_worker.start(): the statements, in source order *)

\* start() without its cleanup_old_containers() call.
StartBody_NoCleanup ==
    << "check_results_dir", "set_image_name", "set_container_env", "setup_env",
       "setup_networks", "set_volume_config", "set_volume_cache",
       "set_volume_results", "setup_volumes", "append_device_request",
       "start_container" >>

\* start() with setup_networks() called before setup_env().
StartBody_NetworkFirst ==
    << "check_results_dir", "set_image_name", "cleanup_old_containers",
       "set_container_env", "setup_networks", "setup_env", "set_volume_config",
       "set_volume_cache", "set_volume_results", "setup_volumes",
       "append_device_request", "start_container" >>

\* start() with the last volume binding written after setup_volumes().
StartBody_LateVolume ==
    << "check_results_dir", "set_image_name", "cleanup_old_containers",
       "set_container_env", "setup_env", "setup_networks", "set_volume_config",
       "set_volume_cache", "setup_volumes", "set_volume_results",
       "append_device_request", "start_container" >>

StartBody ==
    << "check_results_dir",        \* 15-17
       "set_image_name",           \* 19
       "cleanup_old_containers",   \* 20
       "set_container_env",        \* 22-27
       "setup_env",                \* 28
       "setup_networks",           \* 29
       "set_volume_config",        \* 31
       "set_volume_cache",         \* 32
       "set_volume_results",       \* 33
       "setup_volumes",            \* 34
       "append_device_request",    \* 36-42
       "start_container" >>        \* 44

\* The statement about to run.
Stmt == IF pc = 0 THEN "none" ELSE StartBody[pc]

\* Fall through to the next statement; after the last one start() returns.
Continue ==
    /\ pc' = IF pc = Len(StartBody) THEN 0 ELSE pc + 1
    /\ results' = IF pc = Len(StartBody) THEN Append(results, "ok") ELSE results

\* start() is left by an exception (sys.exit raises SystemExit).
Raise(e) ==
    /\ pc' = 0
    /\ results' = Append(results, e)

Log == trace' = Append(trace, Stmt)

configVars == <<image_name, container_env, container_volumes, device_requests>>
createSpecVars == <<spec_env, spec_network, spec_volumes>>
runtimeVars == <<containers, next_id>>
instanceVars == <<results_dir, config_file, docker_system_directory, access_token>>
tokenVars == <<n_get_token, got_tokens>>

-----------------------------------------------------------------------------
(* Construction *)

WorkerInit ==
    /\ results_dir \in ResultsDirs
    /\ config_file \in ConfigFiles
    /\ docker_system_directory \in DockerSystemDirectories
    /\ access_token \in Tokens
    /\ image_name = ""
    /\ container_env = EmptyDict
    /\ container_volumes = EmptyDict
    /\ device_requests = <<>>
    /\ l_results_dir = PyNone
    /\ spec_env = EmptyDict
    /\ spec_network = ""
    /\ spec_volumes = EmptyDict
    /\ \/ containers = {}
       \/ \E c \in StaleContainers : containers = {c}
    /\ next_id = 1
    /\ pc = 0
    /\ trace = <<>>
    /\ results = <<>>
    /\ n_get_token = 0
    /\ got_tokens = {}

\* The worker of a run that only exercises check_env.py: constructed, never started.
WorkerIdle ==
    /\ results_dir = PyNone
    /\ config_file = PyNone
    /\ docker_system_directory = PyNone
    /\ access_token = "tokenA"
    /\ image_name = ""
    /\ container_env = EmptyDict
    /\ container_volumes = EmptyDict
    /\ device_requests = <<>>
    /\ l_results_dir = PyNone
    /\ spec_env = EmptyDict
    /\ spec_network = ""
    /\ spec_volumes = EmptyDict
    /\ containers = {}
    /\ next_id = 1
    /\ pc = 0
    /\ trace = <<>>
    /\ results = <<>>
    /\ n_get_token = 0
    /\ got_tokens = {}

-----------------------------------------------------------------------------
(* WorkerThread (base class), modelled from spec.md *)

\* CleaningUp: every container of this identity is stopped and removed; no match
\* is not an error; a match that cannot be removed is fatal to the start.
cleanup_old_containers ==
    \/ /\ containers' = {}
       /\ Continue
    \/ /\ containers # {}
       /\ containers' = containers
       /\ Raise("ResourceConflictError")

\* EnvApplied: the environment map is handed to the create-spec.
setup_env == spec_env' = container_env

\* NetworkAttached: the create-spec is attached to the designated network.
setup_networks == spec_network' = WorkerNetwork

\* VolumesMounted: every container_volumes entry becomes a bind mount, its mode kept.
setup_volumes == spec_volumes' = container_volumes

\* start_container that leaves the created container behind when its start fails.
start_container_KeepFailed ==
    \/ /\ containers' = containers
       /\ next_id' = next_id
       /\ Raise("RuntimeUnavailableError")
    \/ /\ containers' = containers \cup
                {[id |-> next_id, state |-> "created",
                  devices |-> Len(device_requests), volumes |-> spec_volumes]}
       /\ next_id' = next_id + 1
       /\ Raise("PartialStartError")
    \/ /\ containers' = containers \cup
                {[id |-> next_id, state |-> "running",
                  devices |-> Len(device_requests), volumes |-> spec_volumes]}
       /\ next_id' = next_id + 1
       /\ Continue

\* Started / Failed: create, then start; a container whose start failed is
\* removed before the error is surfaced.
start_container ==
    \/ /\ containers' = containers
       /\ next_id' = next_id
       /\ Raise("RuntimeUnavailableError")
    \/ /\ containers' = containers
       /\ next_id' = next_id + 1
       /\ Raise("PartialStartError")
    \/ /\ containers' = containers \cup
                {[id |-> next_id, state |-> "running",
                  devices |-> Len(device_requests), volumes |-> spec_volumes]}
       /\ next_id' = next_id + 1
       /\ Continue

-----------------------------------------------------------------------------
(* llm_worker.start() and get_token() *)

CallStart ==
    /\ pc = 0
    /\ Len(results) < MaxStarts
    /\ pc' = 1
    /\ l_results_dir' = results_dir
    /\ trace' = <<>>
    /\ UNCHANGED <<results, configVars, createSpecVars, runtimeVars, instanceVars,
                   tokenVars>>
    /\ UNCHANGED mainVars

\* The check written as "if results_dir is None": an empty string passes.
CheckResultsDir_IsNone ==
    /\ Stmt = "check_results_dir"
    /\ Log
    /\ IF l_results_dir = PyNone THEN Raise("SystemExit") ELSE Continue
    /\ UNCHANGED <<l_results_dir, configVars, createSpecVars, runtimeVars,
                   instanceVars, tokenVars>>
    /\ UNCHANGED mainVars

CheckResultsDir ==
    /\ Stmt = "check_results_dir"
    /\ Log
    /\ IF ~Truthy(l_results_dir) THEN Raise("SystemExit") ELSE Continue
    /\ UNCHANGED <<l_results_dir, configVars, createSpecVars, runtimeVars,
                   instanceVars, tokenVars>>
    /\ UNCHANGED mainVars

SetImageName ==
    /\ Stmt = "set_image_name"
    /\ Log
    /\ image_name' = LlmImage
    /\ Continue
    /\ UNCHANGED <<l_results_dir, container_env, container_volumes, device_requests,
                   createSpecVars, runtimeVars, instanceVars, tokenVars>>
    /\ UNCHANGED mainVars

CallCleanupOldContainers ==
    /\ Stmt = "cleanup_old_containers"
    /\ Log
    /\ cleanup_old_containers
    /\ UNCHANGED <<l_results_dir, configVars, createSpecVars, next_id, instanceVars,
                   tokenVars>>
    /\ UNCHANGED mainVars

SetContainerEnv ==
    /\ Stmt = "set_container_env"
    /\ Log
    /\ container_env' =
          [k \in {"CONFIG", "RESULTS_DIR", "NVIDIA_VISIBLE_DEVICES",
                  "NVIDIA_DRIVER_CAPABILITIES"} |->
              CASE k = "CONFIG" -> config_file
                [] k = "RESULTS_DIR" -> l_results_dir
                [] OTHER -> "all"]
    /\ Continue
    /\ UNCHANGED <<l_results_dir, image_name, container_volumes, device_requests,
                   createSpecVars, runtimeVars, instanceVars, tokenVars>>
    /\ UNCHANGED mainVars

CallSetupEnv ==
    /\ Stmt = "setup_env"
    /\ Log
    /\ setup_env
    /\ Continue
    /\ UNCHANGED <<l_results_dir, configVars, spec_network, spec_volumes,
                   runtimeVars, instanceVars, tokenVars>>
    /\ UNCHANGED mainVars

CallSetupNetworks ==
    /\ Stmt = "setup_networks"
    /\ Log
    /\ setup_networks
    /\ Continue
    /\ UNCHANGED <<l_results_dir, configVars, spec_env, spec_volumes, runtimeVars,
                   instanceVars, tokenVars>>
    /\ UNCHANGED mainVars

SetVolumeConfig ==
    /\ Stmt = "set_volume_config"
    /\ Log
    /\ container_volumes' =
          Put(container_volumes, config_file, [bind |-> "/llm.yaml", mode |-> "ro"])
    /\ Continue
    /\ UNCHANGED <<l_results_dir, image_name, container_env, device_requests,
                   createSpecVars, runtimeVars, instanceVars, tokenVars>>
    /\ UNCHANGED mainVars

SetVolumeCache ==
    /\ Stmt = "set_volume_cache"
    /\ Log
    /\ container_volumes' =
          Put(container_volumes,
              Str(docker_system_directory) \o "/.llm_worker_cache",
              [bind |-> "/app/huggingface_cache", mode |-> "rw"])
    /\ Continue
    /\ UNCHANGED <<l_results_dir, image_name, container_env, device_requests,
                   createSpecVars, runtimeVars, instanceVars, tokenVars>>
    /\ UNCHANGED mainVars

SetVolumeResults ==
    /\ Stmt = "set_volume_results"
    /\ Log
    /\ container_volumes' =
          Put(container_volumes, "/tmp/.rt_results",
              [bind |-> "/host/logs/", mode |-> "rw"])
    /\ Continue
    /\ UNCHANGED <<l_results_dir, image_name, container_env, device_requests,
                   createSpecVars, runtimeVars, instanceVars, tokenVars>>
    /\ UNCHANGED mainVars

CallSetupVolumes ==
    /\ Stmt = "setup_volumes"
    /\ Log
    /\ setup_volumes
    /\ Continue
    /\ UNCHANGED <<l_results_dir, configVars, spec_env, spec_network, runtimeVars,
                   instanceVars, tokenVars>>
    /\ UNCHANGED mainVars

AppendDeviceRequest ==
    /\ Stmt = "append_device_request"
    /\ Log
    /\ device_requests' = Append(device_requests, GpuRequest)
    /\ Continue
    /\ UNCHANGED <<l_results_dir, image_name, container_env, container_volumes,
                   createSpecVars, runtimeVars, instanceVars, tokenVars>>
    /\ UNCHANGED mainVars

CallStartContainer ==
    /\ Stmt = "start_container"
    /\ Log
    /\ start_container
    /\ UNCHANGED <<l_results_dir, configVars, createSpecVars, instanceVars, tokenVars>>
    /\ UNCHANGED mainVars

\* get_token() that issues a fresh token on every call.
GetToken_Regenerate ==
    /\ pc = 0
    /\ n_get_token < MaxGetToken
    /\ n_get_token' = n_get_token + 1
    /\ \E t \in Tokens :
          /\ access_token' = t
          /\ got_tokens' = got_tokens \cup {t}
    /\ UNCHANGED <<pc, trace, results, l_results_dir, configVars, createSpecVars,
                   runtimeVars, results_dir, config_file, docker_system_directory>>
    /\ UNCHANGED mainVars

GetToken ==
    /\ pc = 0
    /\ n_get_token < MaxGetToken
    /\ n_get_token' = n_get_token + 1
    /\ got_tokens' = got_tokens \cup {access_token}
    /\ UNCHANGED <<pc, trace, results, l_results_dir, configVars, createSpecVars,
                   runtimeVars, instanceVars>>
    /\ UNCHANGED mainVars

-----------------------------------------------------------------------------
(* check_env.py: inputs *)

OptionalDirs == {PyNone, "", "/usr/share/uhd/images"}

OptionalHosts == {PyNone, "", "controller"}

EnvSpecs == {"INFLUX_HOST", "MODE=test"}

ConfigPaths == {"/etc/rt/config.yaml"}

\* The non-empty lists argparse's action="append" builds, and <<>> for None.
Lists(S) == UNION {[1..n -> S] : n \in 0..MaxList}

\* What a check function returns: pass (TRUE) or fail (FALSE), as the host's
\* file system, environment, network and services decide.
CheckResults == BOOLEAN

\* One "if not check(...): failed = True" statement, with the check's result r.
RunCheck(name, arg, r) ==
    /\ ran' = Append(ran, [check |-> name, arg |-> arg, ok |-> r])
    /\ failed' = IF ~r THEN TRUE ELSE failed

mainArgs == <<a_images_dir, a_check_usb, a_check_host, a_check_env, a_check_config,
              a_check_influxdb, a_check_control_api>>

MainInit ==
    /\ a_images_dir \in OptionalDirs
    /\ a_check_usb \in BOOLEAN
    /\ a_check_host \in OptionalHosts
    /\ a_check_env \in Lists(EnvSpecs)
    /\ a_check_config \in Lists(ConfigPaths)
    /\ a_check_influxdb \in BOOLEAN
    /\ a_check_control_api \in BOOLEAN
    /\ failed = FALSE
    /\ mpc = "images_dir"
    /\ idx = 0
    /\ ran = <<>>
    /\ exit_status = -1

\* check_env.py is not run.
MainIdle ==
    /\ a_images_dir = PyNone
    /\ a_check_usb = FALSE
    /\ a_check_host = PyNone
    /\ a_check_env = <<>>
    /\ a_check_config = <<>>
    /\ a_check_influxdb = FALSE
    /\ a_check_control_api = FALSE
    /\ failed = FALSE
    /\ mpc = "off"
    /\ idx = 0
    /\ ran = <<>>
    /\ exit_status = -1

-----------------------------------------------------------------------------
(* check_env.py: main() *)

MainImagesDir ==
    /\ mpc = "images_dir"
    /\ IF Truthy(a_images_dir)
         THEN \E r \in CheckResults : RunCheck("check_uhd_images", a_images_dir, r)
         ELSE UNCHANGED <<ran, failed>>
    /\ mpc' = "check_usb"
    /\ UNCHANGED <<mainArgs, idx, exit_status, workerVars>>

\* The USB block written as "failed = not check_usb_mount()".
MainCheckUsb_Assign ==
    /\ mpc = "check_usb"
    /\ IF a_check_usb
         THEN \E r \in CheckResults :
                 /\ ran' = Append(ran, [check |-> "check_usb_mount", arg |-> "", ok |-> r])
                 /\ failed' = ~r
         ELSE UNCHANGED <<ran, failed>>
    /\ mpc' = "check_host"
    /\ UNCHANGED <<mainArgs, idx, exit_status, workerVars>>

MainCheckUsb ==
    /\ mpc = "check_usb"
    /\ IF a_check_usb
         THEN \E r \in CheckResults : RunCheck("check_usb_mount", "", r)
         ELSE UNCHANGED <<ran, failed>>
    /\ mpc' = "check_host"
    /\ UNCHANGED <<mainArgs, idx, exit_status, workerVars>>

MainCheckHost ==
    /\ mpc = "check_host"
    /\ IF Truthy(a_check_host)
         THEN \E r \in CheckResults : RunCheck("check_reachability", a_check_host, r)
         ELSE UNCHANGED <<ran, failed>>
    /\ mpc' = "check_env"
    /\ UNCHANGED <<mainArgs, idx, exit_status, workerVars>>

\* "if args.check_env: for spec in args.check_env": one iteration per step; the
\* step that finds the list exhausted (or None) moves on.
MainCheckEnv ==
    /\ mpc = "check_env"
    /\ IF idx < Len(a_check_env)
         THEN /\ \E r \in CheckResults :
                    RunCheck("check_env_variable", a_check_env[idx + 1], r)
              /\ idx' = idx + 1
              /\ mpc' = mpc
         ELSE /\ UNCHANGED <<ran, failed>>
              /\ idx' = 0
              /\ mpc' = "check_config"
    /\ UNCHANGED <<mainArgs, exit_status, workerVars>>

MainCheckConfig ==
    /\ mpc = "check_config"
    /\ IF idx < Len(a_check_config)
         THEN /\ \E r \in CheckResults :
                    RunCheck("check_config_file", a_check_config[idx + 1], r)
              /\ idx' = idx + 1
              /\ mpc' = mpc
         ELSE /\ UNCHANGED <<ran, failed>>
              /\ idx' = 0
              /\ mpc' = "check_influxdb"
    /\ UNCHANGED <<mainArgs, exit_status, workerVars>>

MainCheckInfluxdb ==
    /\ mpc = "check_influxdb"
    /\ IF a_check_influxdb
         THEN \E r \in CheckResults : RunCheck("check_influxdb", "", r)
         ELSE UNCHANGED <<ran, failed>>
    /\ mpc' = "check_control_api"
    /\ UNCHANGED <<mainArgs, idx, exit_status, workerVars>>

MainCheckControlApi ==
    /\ mpc = "check_control_api"
    /\ IF a_check_control_api
         THEN \E r \in CheckResults : RunCheck("check_api", "", r)
         ELSE UNCHANGED <<ran, failed>>
    /\ mpc' = "exit"
    /\ UNCHANGED <<mainArgs, idx, exit_status, workerVars>>

MainExit ==
    /\ mpc = "exit"
    /\ exit_status' = IF failed THEN 1 ELSE 0
    /\ mpc' = "done"
    /\ UNCHANGED <<mainArgs, failed, idx, ran, workerVars>>

-----------------------------------------------------------------------------
(* Specifications *)

Init == WorkerInit /\ MainIdle

Next ==
    \/ CallStart
    \/ CheckResultsDir
    \/ SetImageName
    \/ CallCleanupOldContainers
    \/ SetContainerEnv
    \/ CallSetupEnv
    \/ CallSetupNetworks
    \/ SetVolumeConfig
    \/ SetVolumeCache
    \/ SetVolumeResults
    \/ CallSetupVolumes
    \/ AppendDeviceRequest
    \/ CallStartContainer
    \/ GetToken

Spec == Init /\ [][Next]_vars

InitCheckEnv == MainInit /\ WorkerIdle

NextCheckEnv ==
    \/ MainImagesDir
    \/ MainCheckUsb
    \/ MainCheckHost
    \/ MainCheckEnv
    \/ MainCheckConfig
    \/ MainCheckInfluxdb
    \/ MainCheckControlApi
    \/ MainExit

SpecCheckEnv == InitCheckEnv /\ [][NextCheckEnv]_vars

-----------------------------------------------------------------------------
(* Properties *)

IsPrefix(s, t) == Len(s) <= Len(t) /\ \A i \in 1..Len(s) : s[i] = t[i]

\* Outcome of the most recent finished start().
LastResult == IF results = <<>> THEN "none" ELSE results[Len(results)]

\* start() is not in progress and its last call ended with outcome r.
Returned(r) == pc = 0 /\ LastResult = r

\* Statement s has run in the current (or last) start().
Ran(s) == \E i \in 1..Len(trace) : trace[i] = s

\* The step stays inside one start() call (CallStart empties the trace).
SameStart == IsPrefix(trace, trace')

\* C1: a worker identity never has two containers in the runtime, and once two
\* start() calls in a row have succeeded exactly one container of that identity
\* exists and it is running.
C1_IdempotentRestart ==
    /\ Cardinality(containers) <= 1
    /\ (/\ pc = 0
        /\ Len(results) >= 2
        /\ results[Len(results) - 1] = "ok"
        /\ results[Len(results)] = "ok")
       => \E c \in containers : containers = {c} /\ c.state = "running"

C1_Witness ==
    /\ pc = 0
    /\ Len(results) >= 2
    /\ results[Len(results) - 1] = "ok"
    /\ results[Len(results)] = "ok"
    /\ \E c \in containers : containers = {c} /\ c.state = "running" /\ c.id >= 2

\* C2: with results_dir absent (None) or empty, no step of the worker changes
\* image_name, container_env, container_volumes, device_requests, the create-spec
\* or the runtime's containers; start() never gets past its first statement, no
\* orchestrator phase is run, and every start() ends in SystemExit.
C2_FailFastWithoutResultsDir ==
    [][~Truthy(results_dir) =>
          /\ UNCHANGED <<configVars, createSpecVars, runtimeVars>>
          /\ pc' \in {0, 1}
          /\ \A i \in 1..Len(trace') : trace'[i] = "check_results_dir"
          /\ \A i \in 1..Len(results') : results'[i] = "SystemExit"]_vars

C2_Witness ==
    /\ ~Truthy(results_dir)
    /\ Returned("SystemExit")
    /\ trace = <<"check_results_dir">>
    /\ containers # {}

\* C3: access_token never changes after construction, every value get_token()
\* has returned is that token, and a get_token() call changes nothing of the
\* worker, its configuration or the runtime.
C3_TokenFixed ==
    [][/\ access_token' = access_token
       /\ got_tokens' \subseteq {access_token}
       /\ n_get_token' # n_get_token =>
             UNCHANGED <<pc, trace, results, l_results_dir, configVars,
                         createSpecVars, runtimeVars, instanceVars>>]_vars

C3_Witness ==
    /\ n_get_token = MaxGetToken
    /\ got_tokens = {access_token}
    /\ Len(results) >= 2
    /\ \E i \in 1..Len(results) : results[i] = "ok"
    /\ \E i \in 1..Len(results) : results[i] # "ok"

\* The phases of section 2 of the specification, in its order; the device phase
\* of llm_worker is the statement that appends the GPU request.
PhaseOrder ==
    << "cleanup_old_containers", "setup_env", "setup_networks", "setup_volumes",
       "append_device_request", "start_container" >>

IsPhase(s) == \E i \in 1..Len(PhaseOrder) : PhaseOrder[i] = s

Phases == SelectSeq(trace, IsPhase)

\* C4: the phases run so far in a start() are always an initial part of cleanup,
\* environment, network, volumes, devices, start (none skipped, repeated or out of
\* order); start_container is invoked only after the five before it, and a
\* start() that succeeded ran all six.
C4_PhaseOrder ==
    /\ IsPrefix(Phases, PhaseOrder)
    /\ Stmt = "start_container" => Phases = SubSeq(PhaseOrder, 1, 5)
    /\ Ran("start_container") => Phases = PhaseOrder

C4_Witness ==
    /\ Returned("ok")
    /\ Phases = PhaseOrder
    /\ Len(results) = 2

\* C5: when start() has returned with PartialStartError (create succeeded, start
\* failed) the runtime holds no container of this worker's identity.
C5_FailedStartLeavesNothing ==
    Returned("PartialStartError") => containers = {}

C5_Witness ==
    /\ Returned("PartialStartError")
    /\ Ran("cleanup_old_containers")
    /\ next_id > 1
    /\ containers = {}

\* C6: when setup_volumes is about to run, the config file's host path is bound
\* read-only to /llm.yaml.
C6_ConfigBindingReadOnly ==
    Stmt = "setup_volumes" =>
        /\ config_file \in DOMAIN container_volumes
        /\ container_volumes[config_file] = [bind |-> "/llm.yaml", mode |-> "ro"]

C8_KeysWrittenOnce ==
    [][/\ \A k \in DOMAIN container_volumes :
             /\ k \in DOMAIN container_volumes'
             /\ container_volumes'[k] = container_volumes[k]
       /\ (pc' = 0 /\ results' # results /\ results'[Len(results')] = "ok") =>
             Cardinality(DOMAIN container_volumes') = 3]_vars

\* The checks main() has to run, in its order: a check is requested when its
\* option holds a non-empty value, its flag is set, or its list was given.
Requested ==
    (IF Truthy(a_images_dir)
        THEN <<[check |-> "check_uhd_images", arg |-> a_images_dir]>> ELSE <<>>)
    \o (IF a_check_usb THEN <<[check |-> "check_usb_mount", arg |-> ""]>> ELSE <<>>)
    \o (IF Truthy(a_check_host)
           THEN <<[check |-> "check_reachability", arg |-> a_check_host]>> ELSE <<>>)
    \o [i \in 1..Len(a_check_env) |->
           [check |-> "check_env_variable", arg |-> a_check_env[i]]]
    \o [i \in 1..Len(a_check_config) |->
           [check |-> "check_config_file", arg |-> a_check_config[i]]]
    \o (IF a_check_influxdb THEN <<[check |-> "check_influxdb", arg |-> ""]>> ELSE <<>>)
    \o (IF a_check_control_api THEN <<[check |-> "check_api", arg |-> ""]>> ELSE <<>>)

RanChecks == [i \in 1..Len(ran) |-> [check |-> ran[i].check, arg |-> ran[i].arg]]

AllPassed == \A i \in 1..Len(ran) : ran[i].ok

C10_OneGpuRequest ==
    Stmt = "start_container" => device_requests = <<GpuRequest>>

=============================================================================
